---- MODULE Spec2Model ----
(***************************************************************************)
(* Model of ci/check_i18n_quality.py: one run of main() over an            *)
(* environment (the two I18N_MAX_SAME_RATIO_* variables) and a file system *)
(* (the two catalog directories i18n/operator_cli, i18n/operator_wizard).  *)
(*                                                                         *)
(* Strings the program inspects character by character (environment        *)
(* values, file stems) are sequences of one-character strings.  A float is *)
(* a record [kind, n, d]: the finite value n/d, an infinity (n its sign)   *)
(* or not-a-number.  The catalogs have at most MaxKeys keys and the        *)
(* thresholds at most two decimals, so the double comparison of            *)
(* same / key_total with the threshold agrees with the exact comparison of *)
(* the two rationals.                                                      *)
(***************************************************************************)
EXTENDS Integers, Sequences, FiniteSets, TLC

VARIABLES env, fs, pc, cli_max_same_ratio, wizard_max_same_ratio, check,
          base, listing, errors, all_errors, returned, reads,
          stdout, stderr, exit_status

vars == <<env, fs, pc, cli_max_same_ratio, wizard_max_same_ratio, check,
          base, listing, errors, all_errors, returned, reads,
          stdout, stderr, exit_status>>

\* Number of distinct keys a catalog of the model can hold.
MaxKeys == 2

KeyName == <<"a", "b", "c", "d">>

Keys == {KeyName[k] : k \in 1..MaxKeys}

(***************************************************************************)
(* Floats and parse_ratio                                                  *)
(***************************************************************************)
Fin(n, d) == [kind |-> "fin", n |-> n, d |-> d]

Inf(sign) == [kind |-> "inf", n |-> sign, d |-> 0]

NaN == [kind |-> "nan", n |-> 0, d |-> 0]

Unset == [kind |-> "unset", n |-> 0, d |-> 0]

\* value < bound and value > bound of two floats; every comparison with
\* not-a-number is false.
FloatLt(x, y) ==
    CASE x.kind = "nan" \/ y.kind = "nan" -> FALSE
      [] x.kind = "inf" -> x.n < 0 /\ ~(y.kind = "inf" /\ y.n < 0)
      [] y.kind = "inf" -> y.n > 0
      [] OTHER -> x.n * y.d < y.n * x.d

FloatGt(x, y) == FloatLt(y, x)

DigitVal == ("0" :> 0) @@ ("1" :> 1) @@ ("2" :> 2) @@ ("3" :> 3) @@ ("4" :> 4)
            @@ ("5" :> 5) @@ ("6" :> 6) @@ ("7" :> 7) @@ ("8" :> 8) @@ ("9" :> 9)

IsDigit(c) == c \in DOMAIN DigitVal

RECURSIVE StripLeft(_)
StripLeft(s) == IF s # <<>> /\ Head(s) = " " THEN StripLeft(Tail(s)) ELSE s

RECURSIVE StripRight(_)
StripRight(s) ==
    IF s # <<>> /\ s[Len(s)] = " " THEN StripRight(SubSeq(s, 1, Len(s) - 1)) ELSE s

\* str.strip()
Strip(s) == StripRight(StripLeft(s))

RECURSIVE DigitsToInt(_)
DigitsToInt(ds) ==
    IF ds = <<>> THEN 0
    ELSE 10 * DigitsToInt(SubSeq(ds, 1, Len(ds) - 1)) + DigitVal[ds[Len(ds)]]

RECURSIVE Pow10(_)
Pow10(k) == IF k = 0 THEN 1 ELSE 10 * Pow10(k - 1)

\* float(raw) on the decimal grammar  [ws] [sign] (inf | nan | digits[.digits]) [ws];
\* every other text is a ValueError.
Float(raw) ==
    LET s      == Strip(raw)
        signed == s # <<>> /\ Head(s) \in {"-", "+"}
        neg    == s # <<>> /\ Head(s) = "-"
        body   == IF signed THEN Tail(s) ELSE s
        dots   == {p \in 1..Len(body) : body[p] = "."}
        digits == SelectSeq(body, IsDigit)
        frac   == IF dots = {} THEN 0 ELSE Len(body) - (CHOOSE p \in dots : TRUE)
        mag    == DigitsToInt(digits)
    IN  IF body = <<"i", "n", "f">>
          THEN [ok |-> TRUE, value |-> Inf(IF neg THEN -1 ELSE 1)]
        ELSE IF body = <<"n", "a", "n">>
          THEN [ok |-> TRUE, value |-> NaN]
        ELSE IF /\ digits # <<>>
                /\ Cardinality(dots) <= 1
                /\ \A p \in 1..Len(body) : IsDigit(body[p]) \/ body[p] = "."
          THEN [ok |-> TRUE, value |-> Fin(IF neg THEN -mag ELSE mag, Pow10(frac))]
        ELSE [ok |-> FALSE, value |-> Unset]

\* os.getenv: a variable is unset (None) or holds a text.
NoneVar == [set |-> FALSE, text |-> <<>>]

Var(text) == [set |-> TRUE, text |-> text]

Zero == Fin(0, 1)

One == Fin(1, 1)

\* parse_ratio(env_name, default), raw being os.getenv(env_name): the value
\* returned, or the SystemExit raised.
ParseRatio(raw, default) ==
    IF ~raw.set \/ Strip(raw.text) = <<>>
      THEN [ok |-> TRUE, value |-> default, msg |-> ""]
    ELSE IF ~Float(raw.text).ok
      THEN [ok |-> FALSE, value |-> Unset, msg |-> "must be a float between 0.0 and 1.0"]
    ELSE IF FloatLt(Float(raw.text).value, Zero) \/ FloatGt(Float(raw.text).value, One)
      THEN [ok |-> FALSE, value |-> Unset, msg |-> "must be between 0.0 and 1.0"]
    ELSE [ok |-> TRUE, value |-> Float(raw.text).value, msg |-> ""]

CliDefault == Fin(60, 100)

WizardDefault == Fin(40, 100)

CliEnv == "I18N_MAX_SAME_RATIO_OPERATOR_CLI"

WizardEnv == "I18N_MAX_SAME_RATIO_OPERATOR_WIZARD"

(***************************************************************************)
(* Catalog files and load_json                                             *)
(***************************************************************************)
\* A JSON value: a string, or something that is not a string.
Str(s) == [t |-> "str", s |-> s]

Num(s) == [t |-> "int", s |-> s]

\* What a path holds: no file, text that is not JSON, a JSON array, or a JSON
\* object (items: key -> value).
Absent == [kind |-> "absent", items |-> <<>>]

Unparsable == [kind |-> "text", items |-> <<>>]

Array == [kind |-> "array", items |-> <<>>]

Object(items) == [kind |-> "object", items |-> items]

\* load_json without the test of the values' types.
LoadJsonLenient(content) ==
    IF content.kind \in {"absent", "text"}
      THEN [ok |-> FALSE, data |-> <<>>, msg |-> "failed to read/parse JSON file"]
    ELSE IF content.kind # "object"
      THEN [ok |-> FALSE, data |-> <<>>, msg |-> "catalog file is not a JSON object"]
    ELSE [ok |-> TRUE, data |-> content.items, msg |-> ""]

\* load_json(path), content being what the path holds: the catalog returned,
\* or the SystemExit raised.
LoadJson(content) ==
    IF content.kind \in {"absent", "text"}
      THEN [ok |-> FALSE, data |-> <<>>, msg |-> "failed to read/parse JSON file"]
    ELSE IF content.kind # "object"
      THEN [ok |-> FALSE, data |-> <<>>, msg |-> "catalog file is not a JSON object"]
    ELSE IF \E k \in DOMAIN content.items : content.items[k].t # "str"
      THEN [ok |-> FALSE, data |-> <<>>, msg |-> "catalog has non-string values for keys"]
    ELSE [ok |-> TRUE, data |-> content.items, msg |-> ""]

(***************************************************************************)
(* File names                                                              *)
(***************************************************************************)
En == <<"e", "n">>

De == <<"d", "e">>

EnGB == <<"e", "n", "-", "G", "B">>

Es == <<"e", "s">>

Stems == {De, En, EnGB, Es}

Suffix == <<".", "j", "s", "o", "n">>

CharCode == ("-" :> 45) @@ ("." :> 46) @@ ("B" :> 66) @@ ("G" :> 71)
            @@ ("d" :> 100) @@ ("e" :> 101) @@ ("j" :> 106) @@ ("n" :> 110)
            @@ ("o" :> 111) @@ ("s" :> 115)

\* a < b for two file names of one directory, as sorted() orders them.
RECURSIVE NameLess(_, _)
NameLess(a, b) ==
    IF b = <<>> THEN FALSE
    ELSE IF a = <<>> THEN TRUE
    ELSE IF CharCode[Head(a)] # CharCode[Head(b)] THEN CharCode[Head(a)] < CharCode[Head(b)]
    ELSE NameLess(Tail(a), Tail(b))

RECURSIVE SortStems(_)
SortStems(S) ==
    IF S = {} THEN <<>>
    ELSE LET m == CHOOSE x \in S :
                    \A y \in S \ {x} : NameLess(x \o Suffix, y \o Suffix)
         IN  <<m>> \o SortStems(S \ {m})

\* sorted(path.glob("*.json")): the stems of the files of the directory.
SortedGlob(dir) == SortStems({s \in Stems : fs[dir][s].kind # "absent"})

\* locale.startswith(prefix)
StartsWith(s, prefix) ==
    Len(s) >= Len(prefix) /\ SubSeq(s, 1, Len(prefix)) = prefix

\* The test of line 55 as an equality with the base's own stem.
IsBaseLocaleExact(locale) == locale = En

\* locale.startswith("en"): the file is a variant of the base language.
IsBaseLocale(locale) == StartsWith(locale, En)

Path(dir, stem) == [dir |-> dir, stem |-> stem]

(***************************************************************************)
(* The comparison of one locale catalog with the base                      *)
(***************************************************************************)
Error(kind, path, details, same, total, max) ==
    [kind |-> kind, path |-> path, details |-> details,
     same |-> same, total |-> total, max |-> max]

MissingBase(path) == Error("missing base catalog", path, <<>>, 0, 0, Unset)

NoKeys(path) == Error("base catalog has no keys", path, <<>>, 0, 0, Unset)

\* The details with both counts always reported.
DetailsBoth(missing, extra) ==
    << [what |-> "missing", count |-> Cardinality(missing)],
       [what |-> "extra", count |-> Cardinality(extra)] >>

\* details of a key mismatch: the count of each non-empty category.
Details(missing, extra) ==
    (IF missing # {} THEN <<[what |-> "missing", count |-> Cardinality(missing)]>> ELSE <<>>)
    \o (IF extra # {} THEN <<[what |-> "extra", count |-> Cardinality(extra)]>> ELSE <<>>)

\* The ratio test with >= in place of >.
RatioExceedsOrEqual(same, key_total, max_same_ratio) ==
    ~FloatLt(Fin(same, key_total), max_same_ratio) /\ max_same_ratio.kind # "nan"

\* ratio > max_same_ratio, ratio being same / key_total.
RatioExceeds(same, key_total, max_same_ratio) ==
    FloatGt(Fin(same, key_total), max_same_ratio)

\* The comparison with the ratio test ahead of the clone test.
CompareLocaleRatioFirst(path, data, base_, max_same_ratio) ==
    LET base_keys == DOMAIN base_
        key_total == Cardinality(base_keys)
        keys      == DOMAIN data
        missing   == base_keys \ keys
        extra     == keys \ base_keys
        same      == Cardinality({key \in base_keys : data[key] = base_[key]})
    IN  IF missing # {} \/ extra # {}
          THEN <<Error("key mismatch", path, Details(missing, extra), 0, 0, Unset)>>
        ELSE IF RatioExceeds(same, key_total, max_same_ratio)
          THEN <<Error("too many English-identical values", path, <<>>,
                       same, key_total, max_same_ratio)>>
        ELSE IF same = key_total
          THEN <<Error("full English clone", path, <<>>, same, key_total, Unset)>>
        ELSE <<>>

\* The body of the loop of validate_catalog_dir after load_json: the errors
\* appended for one locale file (none or one).
CompareLocale(path, data, base_, max_same_ratio) ==
    LET base_keys == DOMAIN base_
        key_total == Cardinality(base_keys)
        keys      == DOMAIN data
        missing   == base_keys \ keys
        extra     == keys \ base_keys
        same      == Cardinality({key \in base_keys : data[key] = base_[key]})
    IN  IF missing # {} \/ extra # {}
          THEN <<Error("key mismatch", path, Details(missing, extra), 0, 0, Unset)>>
        ELSE IF same = key_total
          THEN <<Error("full English clone", path, <<>>, same, key_total, Unset)>>
        ELSE IF RatioExceeds(same, key_total, max_same_ratio)
          THEN <<Error("too many English-identical values", path, <<>>,
                       same, key_total, max_same_ratio)>>
        ELSE <<>>

(***************************************************************************)
(* main                                                                    *)
(***************************************************************************)
CliDir == "operator_cli"

WizardDir == "operator_wizard"

\* checks of main: the directories in the order they are validated.
Checks == <<CliDir, WizardDir>>

\* The threshold paired with a directory in checks.
MaxSameRatio(dir) == IF dir = CliDir THEN cli_max_same_ratio ELSE wizard_max_same_ratio

NoError == Error("", Path("", <<>>), <<>>, 0, 0, Unset)

Line(text, err) == [text |-> text, err |-> err]

\* A SystemExit raised with a message: the interpreter prints the message to
\* stderr and exits with status 1; main prints nothing.
Abort(msg, opened) ==
    /\ pc' = "aborted"
    /\ stderr' = Append(stderr, msg)
    /\ exit_status' = <<1>>
    /\ reads' = opened
    /\ UNCHANGED <<env, fs, cli_max_same_ratio, wizard_max_same_ratio, check,
                   base, listing, errors, all_errors, returned, stdout>>

\* all_errors.extend(errs), with the second list ahead of the first.
ExtendFront(all, errs) == errs \o all

\* all_errors.extend(errs)
Extend(all, errs) == all \o errs

\* validate_catalog_dir returns errs to main, which extends all_errors and
\* goes on with the next entry of checks.
Return(errs, opened) ==
    /\ all_errors' = Extend(all_errors, errs)
    /\ returned' = Append(returned, errs)
    /\ reads' = opened
    /\ base' = <<>>
    /\ listing' = <<>>
    /\ errors' = <<>>
    /\ IF check < Len(Checks)
         THEN check' = check + 1 /\ pc' = "validate"
         ELSE check' = check /\ pc' = "report"
    /\ UNCHANGED <<env, fs, cli_max_same_ratio, wizard_max_same_ratio,
                   stdout, stderr, exit_status>>

ParseCli ==
    /\ pc = "parse_cli"
    /\ LET r == ParseRatio(env[CliEnv], CliDefault)
       IN  IF r.ok
             THEN /\ cli_max_same_ratio' = r.value
                  /\ pc' = "parse_wizard"
                  /\ UNCHANGED <<env, fs, wizard_max_same_ratio, check, base, listing,
                                 errors, all_errors, returned, reads, stdout, stderr,
                                 exit_status>>
             ELSE Abort(r.msg, reads)

ParseWizard ==
    /\ pc = "parse_wizard"
    /\ LET r == ParseRatio(env[WizardEnv], WizardDefault)
       IN  IF r.ok
             THEN /\ wizard_max_same_ratio' = r.value
                  /\ pc' = "validate"
                  /\ check' = 1
                  /\ UNCHANGED <<env, fs, cli_max_same_ratio, base, listing, errors,
                                 all_errors, returned, reads, stdout, stderr,
                                 exit_status>>
             ELSE Abort(r.msg, reads)

\* The base has keys whatever it holds.
EmptyBaseNever(base_) == FALSE

\* key_total == 0
EmptyBase(base_) == Cardinality(DOMAIN base_) = 0

\* validate_catalog_dir up to the loop: the base catalog is looked for and
\* loaded, the directory is listed.
ValidateStart ==
    /\ pc = "validate"
    /\ LET dir       == Checks[check]
           base_path == Path(dir, En)
           opened    == Append(reads, base_path)
           loaded    == LoadJson(fs[dir][En])
       IN  IF fs[dir][En].kind = "absent"
             THEN Return(<<MissingBase(base_path)>>, reads)
           ELSE IF ~loaded.ok
             THEN Abort(loaded.msg, opened)
           ELSE IF EmptyBase(loaded.data)
             THEN Return(<<NoKeys(base_path)>>, opened)
           ELSE /\ base' = loaded.data
                /\ listing' = SortedGlob(dir)
                /\ errors' = <<>>
                /\ reads' = opened
                /\ pc' = "loop"
                /\ UNCHANGED <<env, fs, cli_max_same_ratio, wizard_max_same_ratio,
                               check, all_errors, returned, stdout, stderr, exit_status>>

\* The files left once a file is done, the loop ending at the first error.
RemainingUntilError(files, found) == IF found # <<>> THEN <<>> ELSE Tail(files)

\* The files the loop still has to visit once the head of files is done,
\* found being the errors appended for it (continue, or the end of the body).
Remaining(files, found) == Tail(files)

\* One iteration of the loop of validate_catalog_dir.
LoopStep ==
    /\ pc = "loop"
    /\ listing # <<>>
    /\ LET dir         == Checks[check]
           locale      == Head(listing)
           locale_file == Path(dir, locale)
           opened      == Append(reads, locale_file)
           loaded      == LoadJson(fs[dir][locale])
           found       == CompareLocale(locale_file, loaded.data, base, MaxSameRatio(dir))
       IN  IF IsBaseLocale(locale)
             THEN /\ listing' = Remaining(listing, <<>>)
                  /\ UNCHANGED <<env, fs, pc, cli_max_same_ratio, wizard_max_same_ratio,
                                 check, base, errors, all_errors, returned, reads,
                                 stdout, stderr, exit_status>>
           ELSE IF ~loaded.ok
             THEN Abort(loaded.msg, opened)
           ELSE /\ errors' = errors \o found
                /\ listing' = Remaining(listing, found)
                /\ reads' = opened
                /\ UNCHANGED <<env, fs, pc, cli_max_same_ratio, wizard_max_same_ratio,
                               check, base, all_errors, returned, stdout, stderr,
                               exit_status>>

\* The loop is over: return errors.
LoopEnd ==
    /\ pc = "loop"
    /\ listing = <<>>
    /\ Return(errors, reads)

RECURSIVE ErrorLines(_)
ErrorLines(errs) ==
    IF errs = <<>> THEN <<>>
    ELSE <<Line("  - ", Head(errs))>> \o ErrorLines(Tail(errs))

\* The report and the status main returns to sys.exit.
Report ==
    /\ pc = "report"
    /\ IF all_errors # <<>>
         THEN /\ stdout' = stdout \o <<Line("[i18n-check] FAILED:", NoError)>>
                              \o ErrorLines(all_errors)
              /\ exit_status' = <<1>>
         ELSE /\ stdout' = Append(stdout, Line("[i18n-check] ok", NoError))
              /\ exit_status' = <<0>>
    /\ pc' = "done"
    /\ UNCHANGED <<env, fs, cli_max_same_ratio, wizard_max_same_ratio, check, base,
                   listing, errors, all_errors, returned, reads, stderr>>

Next == ParseCli \/ ParseWizard \/ ValidateStart \/ LoopStep \/ LoopEnd \/ Report

(***************************************************************************)
(* The inputs of a run                                                     *)
(***************************************************************************)
\* The base's value of a key, and a value that differs from it.
English(k) == Str(k)

Translated(k) == Str("x")

\* Catalogs over the first n keys that hold the base's values.
BaseObjects == {Object([k \in {KeyName[j] : j \in 1..n} |-> English(k)]) : n \in 0..MaxKeys}

NonString == Object([k \in {KeyName[1]} |-> Num("7")])

Malformed == {Unparsable, Array, NonString}

\* Catalogs over any keys, each value the base's or a translation.
LocaleObjects ==
    UNION {{Object([k \in K |-> IF k \in S THEN English(k) ELSE Translated(k)]) :
                S \in SUBSET K} : K \in SUBSET Keys}

\* The locale catalogs that have every key.
FullLocaleObjects == {c \in LocaleObjects : DOMAIN c.items = Keys}

FullBase == Object([k \in Keys |-> English(k)])

Dir(en, de, engb, es) == (En :> en) @@ (De :> de) @@ (EnGB :> engb) @@ (Es :> es)

\* A directory with a base, two locale files and a variant of the base language.
DeepDirs ==
    {Dir(en, de, engb, es) :
        en \in {Absent} \cup Malformed \cup BaseObjects,
        de \in {Absent} \cup Malformed \cup LocaleObjects,
        engb \in {Absent, Unparsable, Object([k \in {KeyName[1]} |-> Translated(k)])},
        es \in {Absent} \cup Malformed \cup FullLocaleObjects}

\* A directory with a base and at most two locale files.
WideDirs ==
    {Dir(en, de, Absent, es) :
        en \in {Absent, Unparsable, Object(<<>>), FullBase},
        de \in {Absent, Unparsable} \cup FullLocaleObjects,
        es \in {Absent, Unparsable, FullBase}}

CleanDir == Dir(FullBase, Absent, Absent, Absent)

RawTexts ==
    { <<>>, <<" ">>, <<"a", "b", "c">>, <<"-", "0", ".", "1">>, <<"0", ".", "0">>,
      <<"0", ".", "5">>, <<"1", ".", "0">>, <<"2", ".", "0">>, <<"i", "n", "f">>,
      <<"-", "i", "n", "f">>, <<"n", "a", "n">> }

EnvValues == {NoneVar} \cup {Var(t) : t \in RawTexts}

Environ(cli, wizard) == (CliEnv :> cli) @@ (WizardEnv :> wizard)

\* The state main starts in, whatever the inputs.
Start ==
    /\ pc = "parse_cli"
    /\ cli_max_same_ratio = Unset
    /\ wizard_max_same_ratio = Unset
    /\ check = 0
    /\ base = <<>>
    /\ listing = <<>>
    /\ errors = <<>>
    /\ all_errors = <<>>
    /\ returned = <<>>
    /\ reads = <<>>
    /\ stdout = <<>>
    /\ stderr = <<>>
    /\ exit_status = <<>>

\* Runs over a rich second directory with any value of its threshold variable.
InitDeep ==
    /\ env \in {Environ(NoneVar, w) : w \in EnvValues}
    /\ fs \in {(CliDir :> CleanDir) @@ (WizardDir :> d) : d \in DeepDirs}
    /\ Start

\* Runs over two small directories with a few values of both variables.
InitWide ==
    /\ env \in {Environ(c, w) : c \in {NoneVar, Var(<<"2", ".", "0">>), Var(<<"n", "a", "n">>)},
                                 w \in {NoneVar, Var(<<"a", "b", "c">>)}}
    /\ fs \in {(CliDir :> c) @@ (WizardDir :> w) : c \in WideDirs, w \in WideDirs}
    /\ Start

Init == InitDeep \/ InitWide

Spec == Init /\ [][Next]_vars

(***************************************************************************)
(* Vocabulary of the properties, stated on the inputs and on what the run  *)
(* has recorded                                                            *)
(***************************************************************************)
\* Every error recorded so far, in the order of its recording.
Collected == all_errors \o errors

ErrorsOf(path) == SelectSeq(Collected, LAMBDA e : e.path = path)

WasRead(path) == \E i \in 1..Len(reads) : reads[i] = path

\* The file holds a catalog: a JSON object whose values are all strings.
IsCatalog(c) == c.kind = "object" /\ \A k \in DOMAIN c.items : c.items[k].t = "str"

HasBase(dir) == IsCatalog(fs[dir][En]) /\ DOMAIN fs[dir][En].items # {}

HasEnPrefix(stem) == Len(stem) >= 2 /\ stem[1] = "e" /\ stem[2] = "n"

\* The files of a directory that are there and are not variants of the base language.
LocaleStems(dir) == {s \in Stems : fs[dir][s].kind # "absent" /\ ~HasEnPrefix(s)}

BaseKeys(dir) == DOMAIN fs[dir][En].items

LocaleKeys(dir, s) == DOMAIN fs[dir][s].items

SameCount(dir, s) ==
    Cardinality({k \in BaseKeys(dir) \cap LocaleKeys(dir, s) :
                    fs[dir][s].items[k] = fs[dir][En].items[k]})

\* The locale files of a directory with a usable base that hold a catalog.
LocaleCatalogs(dir) ==
    IF HasBase(dir) THEN {s \in LocaleStems(dir) : IsCatalog(fs[dir][s])} ELSE {}

KindsOf(path) == {ErrorsOf(path)[i].kind : i \in 1..Len(ErrorsOf(path))}

Dirs == {CliDir, WizardDir}

\* The directory has been validated to its end.
Returned(dir) ==
    \/ dir = CliDir /\ Len(returned) >= 1
    \/ dir = WizardDir /\ Len(returned) >= 2

ReturnedFor(dir) == IF dir = CliDir THEN returned[1] ELSE returned[2]

(***************************************************************************)
(* The claims                                                              *)
(***************************************************************************)
\* C1: a locale catalog identical to a (non-empty) base, once compared, has
\* exactly the "full English clone" error and never the ratio error, whatever
\* the threshold; and a directory validated to its end has compared it.
C1_CloneTakesPrecedence ==
    \A dir \in Dirs : \A s \in LocaleCatalogs(dir) :
        fs[dir][s].items = fs[dir][En].items =>
            /\ "too many English-identical values" \notin KindsOf(Path(dir, s))
            /\ WasRead(Path(dir, s)) =>
                  /\ Len(ErrorsOf(Path(dir, s))) = 1
                  /\ KindsOf(Path(dir, s)) = {"full English clone"}
            /\ Returned(dir) => WasRead(Path(dir, s))

\* C1 witness: a clone was compared under the threshold 1.0 and has the clone error.
C1_Witness ==
    \E s \in LocaleCatalogs(WizardDir) :
        /\ fs[WizardDir][s].items = fs[WizardDir][En].items
        /\ wizard_max_same_ratio = Fin(10, 10)
        /\ KindsOf(Path(WizardDir, s)) = {"full English clone"}

\* C2: a compared locale catalog with the base's key set and same < total has
\* the ratio error if and only if same / total > threshold (strictly).
C2_StrictRatio ==
    \A dir \in Dirs : \A s \in LocaleCatalogs(dir) :
        LET same  == SameCount(dir, s)
            total == Cardinality(BaseKeys(dir))
            max   == MaxSameRatio(dir)
            above == max.kind = "fin" /\ same * max.d > max.n * total
        IN  (/\ LocaleKeys(dir, s) = BaseKeys(dir)
             /\ same < total
             /\ WasRead(Path(dir, s)))
            => /\ above => /\ Len(ErrorsOf(Path(dir, s))) = 1
                           /\ KindsOf(Path(dir, s)) = {"too many English-identical values"}
               /\ ~above => ErrorsOf(Path(dir, s)) = <<>>

\* C2 witness: same = 1, total = 2 under the threshold 0.5: compared, no error.
C2_Witness ==
    \E s \in LocaleCatalogs(WizardDir) :
        /\ LocaleKeys(WizardDir, s) = BaseKeys(WizardDir)
        /\ SameCount(WizardDir, s) = 1
        /\ Cardinality(BaseKeys(WizardDir)) = 2
        /\ wizard_max_same_ratio = Fin(5, 10)
        /\ WasRead(Path(WizardDir, s))
        /\ ErrorsOf(Path(WizardDir, s)) = <<>>

\* C3: a compared locale catalog whose key set differs from the base's has
\* exactly one error, a key mismatch, which reports missing = |base \ locale|
\* only when that is not zero and extra = |locale \ base| only when that is
\* not zero; it has no clone error and no ratio error.
C3_KeyMismatch ==
    \A dir \in Dirs : \A s \in LocaleCatalogs(dir) :
        LET missing == Cardinality(BaseKeys(dir) \ LocaleKeys(dir, s))
            extra   == Cardinality(LocaleKeys(dir, s) \ BaseKeys(dir))
            found   == ErrorsOf(Path(dir, s))
            reports(what, n) ==
                \E i \in 1..Len(found[1].details) :
                    found[1].details[i] = [what |-> what, count |-> n]
            names(what) ==
                \E i \in 1..Len(found[1].details) : found[1].details[i].what = what
        IN  (LocaleKeys(dir, s) # BaseKeys(dir) /\ WasRead(Path(dir, s)))
            => /\ Len(found) = 1
               /\ found[1].kind = "key mismatch"
               /\ IF missing # 0 THEN reports("missing", missing) ELSE ~names("missing")
               /\ IF extra # 0 THEN reports("extra", extra) ELSE ~names("extra")
               /\ Len(found[1].details) =
                      (IF missing # 0 THEN 1 ELSE 0) + (IF extra # 0 THEN 1 ELSE 0)

\* C3 witness: a locale that misses one key and adds another was compared and
\* has one error reporting missing=1 and extra=1.
C3_Witness ==
    \E s \in LocaleCatalogs(WizardDir) :
        /\ Cardinality(BaseKeys(WizardDir) \ LocaleKeys(WizardDir, s)) = 1
        /\ Cardinality(LocaleKeys(WizardDir, s) \ BaseKeys(WizardDir)) = 1
        /\ Len(ErrorsOf(Path(WizardDir, s))) = 1
        /\ ErrorsOf(Path(WizardDir, s))[1].details =
               << [what |-> "missing", count |-> 1], [what |-> "extra", count |-> 1] >>

\* A float inside the closed range [0.0, 1.0].
InRange(v) == v.kind = "fin" /\ 0 <= v.n /\ v.n <= v.d

\* C4: a threshold that parse_ratio has returned lies in [0.0, 1.0], so no
\* directory is validated against a threshold outside the range.
C4_ThresholdInRange ==
    /\ cli_max_same_ratio # Unset => InRange(cli_max_same_ratio)
    /\ wizard_max_same_ratio # Unset => InRange(wizard_max_same_ratio)

\* A value that is present, not blank, and not the text of a float of [0.0, 1.0].
BadConfig(raw) ==
    /\ raw.set
    /\ Strip(raw.text) # <<>>
    /\ ~(Float(raw.text).ok /\ InRange(Float(raw.text).value))

\* C5: in a run in which either configuration value is malformed or out of
\* range, no catalog file is ever read and the run never reaches its report.
C5_BadConfigReadsNothing ==
    (BadConfig(env[CliEnv]) \/ BadConfig(env[WizardEnv]))
        => reads = <<>> /\ pc \notin {"report", "done"}

\* The same with not-a-number left aside: a value that parse_ratio rejects,
\* in either variable, aborts the run before any catalog file is read.
RejectedConfigReadsNothing ==
    (~ParseRatio(env[CliEnv], CliDefault).ok \/ ~ParseRatio(env[WizardEnv], WizardDefault).ok)
        => reads = <<>> /\ pc \in {"parse_cli", "parse_wizard", "aborted"}

\* The locale catalog fails one of the three checks of the comparison.
Fails(dir, s) ==
    LET same  == SameCount(dir, s)
        total == Cardinality(BaseKeys(dir))
        max   == MaxSameRatio(dir)
    IN  \/ LocaleKeys(dir, s) # BaseKeys(dir)
        \/ same = total
        \/ max.kind = "fin" /\ same * max.d > max.n * total

\* C6: a recorded error stops nothing.  While a directory is in its loop,
\* each of its locale files has been read or is still to be visited; when
\* the run reports, both directories have been validated, every locale file
\* of a directory with a usable base has been read, and the final list holds
\* the error of every failing locale file and of every unusable base.
C6_NoShortCircuit ==
    /\ pc = "loop" =>
          \A s \in LocaleStems(Checks[check]) :
              \/ WasRead(Path(Checks[check], s))
              \/ \E i \in 1..Len(listing) : listing[i] = s
    /\ pc \in {"report", "done"} =>
          /\ Len(returned) = Len(Checks)
          /\ errors = <<>>
          /\ \A dir \in Dirs :
                /\ fs[dir][En].kind = "absent" =>
                      \E i \in 1..Len(all_errors) : all_errors[i] = MissingBase(Path(dir, En))
                /\ fs[dir][En] = Object(<<>>) =>
                      \E i \in 1..Len(all_errors) : all_errors[i] = NoKeys(Path(dir, En))
                /\ HasBase(dir) =>
                      \A s \in LocaleStems(dir) :
                          /\ WasRead(Path(dir, s))
                          /\ Fails(dir, s) => Len(ErrorsOf(Path(dir, s))) = 1

\* C6 witness: a finished run whose list holds the errors of two locale files
\* of the first directory and an error of the second directory.
C6_Witness ==
    /\ pc = "done"
    /\ Len(ErrorsOf(Path(CliDir, De))) = 1
    /\ Len(ErrorsOf(Path(CliDir, Es))) = 1
    /\ \E i \in 1..Len(all_errors) : all_errors[i].path.dir = WizardDir

\* C7: a catalog file that is read and is not a catalog ends the run there:
\* it is the last file read, the run is aborted with status 1, and nothing
\* has been or is printed to stdout, whatever errors were collected; an
\* aborted run has printed no report at all.
C7_FatalEndsRun ==
    /\ \A i \in 1..Len(reads) :
          ~IsCatalog(fs[reads[i].dir][reads[i].stem]) =>
              /\ i = Len(reads)
              /\ pc = "aborted"
    /\ pc = "aborted" =>
          /\ stdout = <<>>
          /\ Len(stderr) = 1
          /\ exit_status = <<1>>

\* C7 witness: the run is aborted by a file of the second directory, after
\* errors were collected from the first directory and from an earlier locale
\* file of the second.
C7_Witness ==
    /\ pc = "aborted"
    /\ reads # <<>>
    /\ reads[Len(reads)].dir = WizardDir
    /\ all_errors # <<>>
    /\ errors # <<>>

\* C8: a finished run has printed the confirmation line and returns 0 if and
\* only if the errors of the first directory followed by those of the second
\* are empty; otherwise it has printed the header, then one line per error in
\* that order, and returns 1.
C8_Report ==
    pc = "done" =>
        LET all == returned[1] \o returned[2] IN
        /\ Len(returned) = 2
        /\ all = <<>> =>
              /\ stdout = <<Line("[i18n-check] ok", NoError)>>
              /\ exit_status = <<0>>
        /\ all # <<>> =>
              /\ Len(stdout) = Len(all) + 1
              /\ stdout[1] = Line("[i18n-check] FAILED:", NoError)
              /\ \A i \in 1..Len(all) : stdout[i + 1] = Line("  - ", all[i])
              /\ exit_status = <<1>>

\* C8 witness: a finished run in which both directories returned errors.
C8_Witness ==
    /\ pc = "done"
    /\ returned[1] # <<>>
    /\ returned[2] # <<>>
    /\ Len(stdout) = Len(returned[1]) + Len(returned[2]) + 1

\* C9: of a directory whose base catalog is missing, or present with no key,
\* no locale file is ever read and no error names one; once the directory is
\* validated it has returned exactly the one error of its base.
C9_UnusableBase ==
    \A dir \in Dirs :
        (fs[dir][En].kind = "absent" \/ fs[dir][En] = Object(<<>>)) =>
            /\ \A s \in Stems \ {En} :
                  /\ ~WasRead(Path(dir, s))
                  /\ ErrorsOf(Path(dir, s)) = <<>>
            /\ Returned(dir) =>
                  ReturnedFor(dir) =
                      IF fs[dir][En].kind = "absent"
                        THEN <<MissingBase(Path(dir, En))>>
                        ELSE <<NoKeys(Path(dir, En))>>

\* C9 witness: a finished run over a second directory whose base has no key
\* and which holds a locale file that is not a catalog.
C9_Witness ==
    /\ pc = "done"
    /\ fs[WizardDir][En] = Object(<<>>)
    /\ fs[WizardDir][De] = Unparsable
    /\ returned[2] = <<NoKeys(Path(WizardDir, En))>>

\* C10 as stated: no file whose stem starts with "en" is ever read or named
\* by an error, and every other file of a validated directory is read.
C10_Original ==
    \A dir \in Dirs :
        /\ \A s \in Stems :
              HasEnPrefix(s) => ~WasRead(Path(dir, s)) /\ ErrorsOf(Path(dir, s)) = <<>>
        /\ Returned(dir) => \A s \in LocaleStems(dir) : WasRead(Path(dir, s))

\* C10 amended: no file whose stem starts with "en", other than the base
\* en.json itself, is ever read or named by an error; en.json is read at most
\* once, as the base; and every file whose stem does not start with "en" is
\* read when its directory, having a usable base, is validated to its end.
C10_VariantsExcluded ==
    \A dir \in Dirs :
        /\ \A s \in Stems \ {En} :
              HasEnPrefix(s) => ~WasRead(Path(dir, s)) /\ ErrorsOf(Path(dir, s)) = <<>>
        /\ Cardinality({i \in 1..Len(reads) : reads[i] = Path(dir, En)}) <= 1
        /\ (Returned(dir) /\ HasBase(dir)) =>
              \A s \in LocaleStems(dir) : WasRead(Path(dir, s))

\* C10 witness: a finished run over a second directory that holds an
\* unparsable en-GB.json and a locale file sorted after it, which was read.
C10_Witness ==
    /\ pc = "done"
    /\ fs[WizardDir][EnGB] = Unparsable
    /\ WasRead(Path(WizardDir, Es))
    /\ ~WasRead(Path(WizardDir, EnGB))

====
